---- MODULE Spec2Model ----
(***************************************************************************)
(* Model of certgen (hypertriton/certgen): the certificate class policy,   *)
(* the request validators of internal/cert/config.go, the entry points     *)
(* GenerateCA, GenerateCertificate, SignCertificate and TrustCertificate   *)
(* of the cert package, and system.InstallAndTrustCA.                      *)
(*                                                                         *)
(* One behaviour is one call of one entry point on a request read from a   *)
(* YAML file (any integer may appear in class, keySize, validityDays and   *)
(* type; any string in the other fields), run against a small file system. *)
(* SpecConcurrent runs two calls of one issuance entry point concurrently  *)
(* on the same output directory.                                           *)
(***************************************************************************)
EXTENDS Integers, Sequences, FiniteSets, TLC

VARIABLES
    op,         \* which entry point this behaviour runs
    pc,         \* position inside the entry point
    input,      \* the request as it was handed to the entry point
    config,     \* the request object (mutated in place by Validate)
    req,        \* Validate's locals minKeySize and maxValidityDays (NoReq = not set)
    err,        \* the error returned by the entry point (nil while running)
    dirs,       \* file system: status of every directory path
    files,      \* file system: existing regular files, path -> [mode, data]
    privateKey, \* the key pair generated by generatePrivateKey (0 = none yet)
    template,   \* the certificate template built (NoTemplate = none yet)
    ca,         \* the issuer loaded by loadCA (NoCA = none yet)
    cert,       \* the signed certificate (NoCert = none yet)
    trace,      \* the calls made so far, in order
    files0,     \* file system: the regular files as they were before the call
    saving,     \* generateAndSaveCertificate: state of its two writer goroutines
    goos,       \* runtime.GOOS
    cmds,       \* the external commands run so far, in order, with their outcome
    peer        \* a second, concurrent call of the entry point: its locals while
                \* the scheduler runs the first one (NoPeer = there is none)

vars == <<op, pc, input, config, req, err, dirs, files, privateKey, template, ca, cert, trace,
          files0, saving, goos, cmds, peer>>

----------------------------------------------------------------------------
(* Bounds of the model *)

\* largest class value a request may carry (3 is the largest valid one)
MaxClass == 4
\* longest dnsNames list of a request
MaxDNSNames == 2
\* number of distinct key pairs / key identifiers the random source may yield
MaxKeyId == 2

----------------------------------------------------------------------------
(* Program constants *)

Class1 == 1
Class2 == 2
Class3 == 3

Root == 0
Intermediate == 1
Leaf == 2

certFileMode == 420   \* 0644
keyFileMode == 384    \* 0600

----------------------------------------------------------------------------
(* Inputs *)

ClassInputs == 0..MaxClass
KeySizeInputs == {-1, 0, 2047, 2048, 3072, 4096}
ValidityInputs == {-1, 0, 730, 1095, 1825, 3650}
TypeInputs == {Root, Intermediate, Leaf}
CommonNameInputs == {"", "example.com"}
OrganizationInputs == {"", "My Company"}
CountryInputs == {"", "US"}
OutputDirInputs == {"", "certs/", "./new", "ro", "notadir", "ro/new"}
DNSNameInputs == {"www.example.com"}
CACertInputs == {"", "certs/ca.crt", "missing/ca.crt"}
CAKeyInputs == {"", "certs/ca.key", "missing/ca.key"}

\* config/ca.yaml: the keys of the "Class 3 CA Configuration" block, absent or
\* as in the sample file
ExtensionInputs ==
    {[CRLDistributionPoints |-> <<>>, OCSPServers |-> <<>>, IssuingCertificateURLs |-> <<>>],
     [CRLDistributionPoints |-> <<"http://crl.example.com/root.crl">>,
      OCSPServers |-> <<"http://ocsp.example.com">>,
      IssuingCertificateURLs |-> <<"http://example.com/ca.crt">>]}

\* SignConfig and TrustConfig paths
CertPathInputs == {"", "certs/cert.crt", "certs/signed.crt", "certs/cert.key",
                   "missing/cert.crt"}
KeyPathInputs == {"", "certs/cert.key", "certs/ec.key", "certs/cert.crt", "missing/cert.key"}
CACertPathInputs == {"", "certs/ca.crt", "missing/ca.crt"}
CAKeyPathInputs == {"", "certs/ca.key", "missing/ca.key", "notadir/ca.key"}
TrustCertPathInputs == {"", "certs/ca.crt", "missing/ca.crt"}

\* runtime.GOOS: the three supported platforms and another one
GOOSInputs == {"darwin", "linux", "windows", "freebsd"}

RECURSIVE SeqsUpTo(_, _)
SeqsUpTo(S, n) ==
    IF n = 0 THEN {<<>>}
    ELSE LET shorter == SeqsUpTo(S, n - 1)
         IN  shorter \cup {Append(s, x) : s \in shorter, x \in S}

DNSNamesInputs == SeqsUpTo(DNSNameInputs, MaxDNSNames)

----------------------------------------------------------------------------
(* Errors: the format string of fmt.Errorf with its integer arguments or   *)
(* its path argument; wrap is the format of the enclosing                  *)
(* fmt.Errorf("...: %w", err), if any.                                     *)

nil == [wrap |-> "", msg |-> "", args |-> <<>>, path |-> ""]

\* fmt.Errorf(msg, args...) with integer arguments (%d)
Errorf(msg, args) == [wrap |-> "", msg |-> msg, args |-> args, path |-> ""]

\* fmt.Errorf(msg, path) with one string argument (%s)
ErrorfPath(msg, path) == [wrap |-> "", msg |-> msg, args |-> <<>>, path |-> path]

\* fmt.Errorf(w, e) with w ending in ": %w"
Wrap(w, e) == [e EXCEPT !.wrap = w]

----------------------------------------------------------------------------
(* Class policy *)

\* getClassRequirements with an unknown class resolved to the strictest row
getClassRequirements_DefaultStrict(class) ==
    CASE class = Class1 -> [minKeySize |-> 2048, maxValidityDays |-> 365 * 5]
      [] class = Class2 -> [minKeySize |-> 3072, maxValidityDays |-> 365 * 3]
      [] OTHER          -> [minKeySize |-> 4096, maxValidityDays |-> 365 * 2]

\* internal/cert/config.go getClassRequirements
getClassRequirements(class) ==
    CASE class = Class1 -> [minKeySize |-> 2048, maxValidityDays |-> 365 * 5]
      [] class = Class2 -> [minKeySize |-> 3072, maxValidityDays |-> 365 * 3]
      [] class = Class3 -> [minKeySize |-> 4096, maxValidityDays |-> 365 * 2]
      [] OTHER          -> [minKeySize |-> 2048, maxValidityDays |-> 365 * 5]

\* path/filepath.Clean on the output directories of the model
Clean(p) ==
    CASE p = ""       -> "."
      [] p = "certs/" -> "certs"
      [] p = "./new"  -> "new"
      [] OTHER        -> p

----------------------------------------------------------------------------
(* File system *)

\* filepath.Join(dir, name) for a cleaned dir and a plain file name
Join(dir, name) == dir \o "/" \o name

\* the paths whose parent is a regular file: os.Stat, os.ReadFile and
\* os.OpenFile on them fail with ENOTDIR
NotDirPaths == {"notadir/ca.key"}

\* os.Stat(path) fails and os.IsNotExist(err) holds: ENOENT only, so ENOTDIR
\* does not count as "not exist"
IsNotExist(path) ==
    /\ path \notin DOMAIN files
    /\ path \notin NotDirPaths
    /\ (path \notin DOMAIN dirs \/ dirs[path] = "absent")

\* the directories in which this process may create entries
WritableDirs == {".", "certs", "new"}

\* the parent directory of each directory path of the model
Parent(dir) == IF dir = "ro/new" THEN "ro" ELSE "."

----------------------------------------------------------------------------
(* Validators.  Validate mutates the request in place and returns an error: *)
(* each step below returns the request as it leaves it (cfg) and the error  *)
(* (err); req holds Validate's locals minKeySize and maxValidityDays.       *)

NoReq == [minKeySize |-> 0, maxValidityDays |-> 0]

\* Validate: the presence checks of commonName, organization and country
RequiredFields(c) ==
    IF c.CommonName = "" THEN Errorf("commonName is required", <<>>)
    ELSE IF c.Organization = "" THEN Errorf("organization is required", <<>>)
    ELSE IF c.Country = "" THEN Errorf("country is required", <<>>)
    ELSE nil

\* Validate leaving an unset class unset
DefaultClass_Keep(c) == c

\* Validate: "Set default class if not specified"
DefaultClass(c) == IF c.Class = 0 THEN [c EXCEPT !.Class = Class1] ELSE c

\* ValidateKeySize raising a key size below the minimum to the minimum
ValidateKeySize_Clamp(c, minKeySize, format) ==
    IF c.KeySize < minKeySize
    THEN [cfg |-> [c EXCEPT !.KeySize = minKeySize], err |-> nil]
    ELSE [cfg |-> c, err |-> nil]

\* ValidateKeySize with the default of class 1 for every class
ValidateKeySize_Default2048(c, minKeySize, format) ==
    IF c.KeySize <= 0
    THEN [cfg |-> [c EXCEPT !.KeySize = 2048], err |-> nil]
    ELSE IF c.KeySize < minKeySize
    THEN [cfg |-> c, err |-> Errorf(format, <<minKeySize, c.Class>>)]
    ELSE [cfg |-> c, err |-> nil]

\* ValidateKeySize reporting the key size supplied instead of the minimum
ValidateKeySize_WrongLimit(c, minKeySize, format) ==
    IF c.KeySize <= 0
    THEN [cfg |-> [c EXCEPT !.KeySize = minKeySize], err |-> nil]
    ELSE IF c.KeySize < minKeySize
    THEN [cfg |-> c, err |-> Errorf(format, <<c.KeySize, c.Class>>)]
    ELSE [cfg |-> c, err |-> nil]

\* Validate: "Validate key size"; format is the message of the error
ValidateKeySize(c, minKeySize, format) ==
    IF c.KeySize <= 0
    THEN [cfg |-> [c EXCEPT !.KeySize = minKeySize], err |-> nil]
    ELSE IF c.KeySize < minKeySize
    THEN [cfg |-> c, err |-> Errorf(format, <<minKeySize, c.Class>>)]
    ELSE [cfg |-> c, err |-> nil]

\* (*CAConfig).Validate: "Validate validity period" (the default only)
CADefaultValidity(c, maxValidityDays) ==
    IF c.ValidityDays <= 0 THEN [c EXCEPT !.ValidityDays = maxValidityDays] ELSE c

\* CAValidateType without the 4096-bit rule for roots
CAValidateType_NoRootKeySize(c, maxValidityDays) ==
    IF c.Type = Root
    THEN IF c.Class < Class2
         THEN Errorf("root certificates must be Class 2 or higher", <<>>)
         ELSE IF c.ValidityDays < 365 * 5
         THEN Errorf("root certificates should have at least 5 years validity", <<>>)
         ELSE nil
    ELSE IF c.ValidityDays > maxValidityDays
         THEN Errorf("validity period cannot exceed %d days for Class %d CA",
                     <<maxValidityDays, c.Class>>)
         ELSE nil

\* CAValidateType with the floor for roots only and no ceiling for the others
CAValidateType_NoCeiling(c, maxValidityDays) ==
    IF c.Type = Root
    THEN IF c.Class < Class2
         THEN Errorf("root certificates must be Class 2 or higher", <<>>)
         ELSE IF c.KeySize < 4096
         THEN Errorf("root certificates must use at least 4096-bit keys", <<>>)
         ELSE IF c.ValidityDays < 365 * 5
         THEN Errorf("root certificates should have at least 5 years validity", <<>>)
         ELSE nil
    ELSE nil

\* CAValidateType with the class ceiling applied to every type, roots included
CAValidateType_CeilingForAll(c, maxValidityDays) ==
    IF c.ValidityDays > maxValidityDays
    THEN Errorf("validity period cannot exceed %d days for Class %d CA",
                <<maxValidityDays, c.Class>>)
    ELSE IF c.Type = Root
    THEN IF c.Class < Class2
         THEN Errorf("root certificates must be Class 2 or higher", <<>>)
         ELSE IF c.KeySize < 4096
         THEN Errorf("root certificates must use at least 4096-bit keys", <<>>)
         ELSE IF c.ValidityDays < 365 * 5
         THEN Errorf("root certificates should have at least 5 years validity", <<>>)
         ELSE nil
    ELSE nil

\* (*CAConfig).Validate: the root rules, or the class ceiling for the other types
CAValidateType(c, maxValidityDays) ==
    IF c.Type = Root
    THEN IF c.Class < Class2
         THEN Errorf("root certificates must be Class 2 or higher", <<>>)
         ELSE IF c.KeySize < 4096
         THEN Errorf("root certificates must use at least 4096-bit keys", <<>>)
         ELSE IF c.ValidityDays < 365 * 5
         THEN Errorf("root certificates should have at least 5 years validity", <<>>)
         ELSE nil
    ELSE IF c.ValidityDays > maxValidityDays
         THEN Errorf("validity period cannot exceed %d days for Class %d CA",
                     <<maxValidityDays, c.Class>>)
         ELSE nil

\* Validate: "Set default output directory", then filepath.Clean
DefaultOutputDir(c) ==
    LET c1 == IF c.OutputDir = "" THEN [c EXCEPT !.OutputDir = "certs"] ELSE c
    IN  [c1 EXCEPT !.OutputDir = Clean(c1.OutputDir)]

\* (*CAConfig).Validate
CAConfigValidate(c0) ==
    IF RequiredFields(c0) # nil
    THEN [cfg |-> c0, err |-> RequiredFields(c0), req |-> NoReq]
    ELSE
    LET c1 == DefaultClass(c0)
        rq == getClassRequirements(c1.Class)
        k == ValidateKeySize(c1, rq.minKeySize,
                             "keySize must be at least %d bits for Class %d CA")
    IN
    IF k.err # nil THEN [cfg |-> k.cfg, err |-> k.err, req |-> rq]
    ELSE
    LET c3 == CADefaultValidity(k.cfg, rq.maxValidityDays)
        e == CAValidateType(c3, rq.maxValidityDays)
    IN
    IF e # nil THEN [cfg |-> c3, err |-> e, req |-> rq]
    ELSE [cfg |-> DefaultOutputDir(c3), err |-> nil, req |-> rq]

\* (*CertConfig).Validate: "Validate validity period"
CertValidateValidity(c, maxValidityDays) ==
    IF c.ValidityDays <= 0
    THEN [cfg |-> [c EXCEPT !.ValidityDays = maxValidityDays], err |-> nil]
    ELSE IF c.ValidityDays > maxValidityDays
    THEN [cfg |-> c,
          err |-> Errorf("validity period cannot exceed %d days for Class %d certificate",
                         <<maxValidityDays, c.Class>>)]
    ELSE [cfg |-> c, err |-> nil]

\* DefaultDNSNames leaving an empty list empty
DefaultDNSNames_None(c) == c

\* (*CertConfig).Validate: "Set default DNS names"
DefaultDNSNames(c) ==
    IF Len(c.DNSNames) = 0 THEN [c EXCEPT !.DNSNames = <<c.CommonName>>] ELSE c

\* (*CertConfig).Validate: "Validate CA certificate and key paths"
CertValidateCA(c) ==
    IF c.CACert = "" THEN Errorf("caCert path is required", <<>>)
    ELSE IF c.CAKey = "" THEN Errorf("caKey path is required", <<>>)
    ELSE IF IsNotExist(c.CACert)
    THEN ErrorfPath("CA certificate not found at %s", c.CACert)
    ELSE IF IsNotExist(c.CAKey)
    THEN ErrorfPath("CA private key not found at %s", c.CAKey)
    ELSE nil

\* (*CertConfig).Validate with the key size check ahead of the presence checks
CertConfigValidate_KeySizeFirst(c0) ==
    LET c1 == DefaultClass(c0)
        rq == getClassRequirements(c1.Class)
        k == ValidateKeySize(c1, rq.minKeySize,
                             "keySize must be at least %d bits for Class %d certificate")
    IN
    IF k.err # nil THEN [cfg |-> k.cfg, err |-> k.err, req |-> rq]
    ELSE IF RequiredFields(c0) # nil
    THEN [cfg |-> c0, err |-> RequiredFields(c0), req |-> NoReq]
    ELSE
    LET v == CertValidateValidity(k.cfg, rq.maxValidityDays) IN
    IF v.err # nil THEN [cfg |-> v.cfg, err |-> v.err, req |-> rq]
    ELSE
    LET c5 == DefaultOutputDir(DefaultDNSNames(v.cfg))
    IN  [cfg |-> c5, err |-> CertValidateCA(c5), req |-> rq]

\* (*CertConfig).Validate
CertConfigValidate(c0) ==
    IF RequiredFields(c0) # nil
    THEN [cfg |-> c0, err |-> RequiredFields(c0), req |-> NoReq]
    ELSE
    LET c1 == DefaultClass(c0)
        rq == getClassRequirements(c1.Class)
        k == ValidateKeySize(c1, rq.minKeySize,
                             "keySize must be at least %d bits for Class %d certificate")
    IN
    IF k.err # nil THEN [cfg |-> k.cfg, err |-> k.err, req |-> rq]
    ELSE
    LET v == CertValidateValidity(k.cfg, rq.maxValidityDays) IN
    IF v.err # nil THEN [cfg |-> v.cfg, err |-> v.err, req |-> rq]
    ELSE
    LET c5 == DefaultOutputDir(DefaultDNSNames(v.cfg))
    IN  [cfg |-> c5, err |-> CertValidateCA(c5), req |-> rq]

\* (*SignConfig).Validate: the four paths are set, then exist
SignValidatePaths(c) ==
    IF c.CertPath = "" THEN Errorf("certPath is required", <<>>)
    ELSE IF c.KeyPath = "" THEN Errorf("keyPath is required", <<>>)
    ELSE IF c.CACertPath = "" THEN Errorf("caCertPath is required", <<>>)
    ELSE IF c.CAKeyPath = "" THEN Errorf("caKeyPath is required", <<>>)
    ELSE IF IsNotExist(c.CertPath)
    THEN ErrorfPath("certificate not found at %s", c.CertPath)
    ELSE IF IsNotExist(c.KeyPath)
    THEN ErrorfPath("certificate key not found at %s", c.KeyPath)
    ELSE IF IsNotExist(c.CACertPath)
    THEN ErrorfPath("CA certificate not found at %s", c.CACertPath)
    ELSE IF IsNotExist(c.CAKeyPath)
    THEN ErrorfPath("CA private key not found at %s", c.CAKeyPath)
    ELSE nil

\* (*SignConfig).Validate
SignConfigValidate(c) ==
    IF SignValidatePaths(c) # nil
    THEN [cfg |-> c, err |-> SignValidatePaths(c)]
    ELSE [cfg |-> DefaultOutputDir(c), err |-> nil]

\* (*TrustConfig).Validate
TrustConfigValidate(c) ==
    IF c.CertPath = "" THEN [cfg |-> c, err |-> Errorf("certPath is required", <<>>)]
    ELSE IF IsNotExist(c.CertPath)
    THEN [cfg |-> c, err |-> ErrorfPath("certificate not found at %s", c.CertPath)]
    ELSE [cfg |-> DefaultOutputDir(c), err |-> nil]

----------------------------------------------------------------------------
(* Templates *)

NoTemplate == [none |-> TRUE]
NoCert == [none |-> TRUE]
NoCA == [none |-> TRUE]

\* contents of a file: nothing, a PEM "CERTIFICATE" block, a PEM key block
EmptyData == [type |-> ""]
CertPEM(c) == [type |-> "CERTIFICATE", cert |-> c]
KeyPEM(type, k) == [type |-> type, key |-> k]

KeyIds == 1..MaxKeyId

\* the serial numbers generateSerialNumber may draw: the value is opaque to
\* the program, one value stands for all
SerialNumbers == {1}

Subject(c) == [CommonName |-> c.CommonName, Organization |-> c.Organization,
               Country |-> c.Country]

\* createCATemplate: the class switch
CAClassSettings(t, class) ==
    CASE class = Class1 ->
           [t EXCEPT !.MaxPathLen = 0, !.MaxPathLenZero = TRUE,
                     !.ExtKeyUsage = <<"ClientAuth", "EmailProtection">>]
      [] class = Class2 ->
           [t EXCEPT !.MaxPathLen = 1, !.MaxPathLenZero = FALSE,
                     !.ExtKeyUsage = <<"ServerAuth", "ClientAuth">>]
      [] class = Class3 ->
           [t EXCEPT !.MaxPathLen = 2, !.MaxPathLenZero = FALSE,
                     !.ExtKeyUsage = <<"ServerAuth", "ClientAuth", "CodeSigning">>,
                     !.PolicyIdentifiers = <<"2.5.29.32.0">>]
      [] OTHER -> t

\* the root settings without the assignment of AuthorityKeyId
CARootSettings_KeepAuthorityKeyId(t) ==
    [t EXCEPT !.KeyUsage = {"CertSign", "CRLSign", "DigitalSignature"},
              !.ExtKeyUsage = <<"ServerAuth", "ClientAuth", "CodeSigning",
                                "EmailProtection", "TimeStamping">>,
              !.PolicyIdentifiers = <<"2.5.29.32.0", "2.5.29.32.1">>]

\* createCATemplate: the root settings
CARootSettings(t) ==
    [t EXCEPT !.AuthorityKeyId = t.SubjectKeyId,
              !.KeyUsage = {"CertSign", "CRLSign", "DigitalSignature"},
              !.ExtKeyUsage = <<"ServerAuth", "ClientAuth", "CodeSigning",
                                "EmailProtection", "TimeStamping">>,
              !.PolicyIdentifiers = <<"2.5.29.32.0", "2.5.29.32.1">>]

\* createCATemplate with crlSign in the key usage of every CA template
createCATemplate_CRLSignForAll(c, serial, skid, akid) ==
    LET t0 == [none |-> FALSE,
               SerialNumber |-> serial,
               Subject |-> Subject(c),
               ValidityDays |-> c.ValidityDays,
               IsCA |-> TRUE,
               KeyUsage |-> {"CertSign", "CRLSign", "DigitalSignature"},
               ExtKeyUsage |-> <<"ServerAuth", "ClientAuth">>,
               BasicConstraintsValid |-> TRUE,
               SubjectKeyId |-> skid,
               AuthorityKeyId |-> akid,
               MaxPathLen |-> 0,
               MaxPathLenZero |-> FALSE,
               PolicyIdentifiers |-> <<>>,
               DNSNames |-> <<>>,
               CRLDistributionPoints |-> <<>>,
               OCSPServer |-> <<>>,
               IssuingCertificateURL |-> <<>>]
        t1 == CAClassSettings(t0, c.Class)
    IN  IF c.Type = Root THEN CARootSettings(t1) ELSE t1

\* createCATemplate, given the serial number and the two identifiers that
\* generateSerialNumber and generateSubjectKeyID drew
createCATemplate(c, serial, skid, akid) ==
    LET t0 == [none |-> FALSE,
               SerialNumber |-> serial,
               Subject |-> Subject(c),
               ValidityDays |-> c.ValidityDays,
               IsCA |-> TRUE,
               KeyUsage |-> {"CertSign", "DigitalSignature"},
               ExtKeyUsage |-> <<"ServerAuth", "ClientAuth">>,
               BasicConstraintsValid |-> TRUE,
               SubjectKeyId |-> skid,
               AuthorityKeyId |-> akid,
               MaxPathLen |-> 0,
               MaxPathLenZero |-> FALSE,
               PolicyIdentifiers |-> <<>>,
               DNSNames |-> <<>>,
               CRLDistributionPoints |-> <<>>,
               OCSPServer |-> <<>>,
               IssuingCertificateURL |-> <<>>]
        t1 == CAClassSettings(t0, c.Class)
    IN  IF c.Type = Root THEN CARootSettings(t1) ELSE t1

\* createCertTemplate: the class switch
CertClassSettings(t, class) ==
    CASE class = Class1 -> [t EXCEPT !.ExtKeyUsage = <<"ClientAuth", "EmailProtection">>]
      [] class = Class2 -> [t EXCEPT !.ExtKeyUsage = <<"ServerAuth", "ClientAuth">>]
      [] class = Class3 -> [t EXCEPT !.ExtKeyUsage = <<"ServerAuth", "ClientAuth">>,
                                     !.PolicyIdentifiers = <<"2.5.29.32.0">>]
      [] OTHER -> t

\* createCertTemplate, given the serial number generateSerialNumber drew
createCertTemplate(c, serial) ==
    CertClassSettings(
        [none |-> FALSE,
         SerialNumber |-> serial,
         Subject |-> Subject(c),
         ValidityDays |-> c.ValidityDays,
         IsCA |-> FALSE,
         KeyUsage |-> {"DigitalSignature", "KeyEncipherment"},
         ExtKeyUsage |-> <<>>,
         BasicConstraintsValid |-> TRUE,
         SubjectKeyId |-> 0,
         AuthorityKeyId |-> 0,
         MaxPathLen |-> 0,
         MaxPathLenZero |-> FALSE,
         PolicyIdentifiers |-> <<>>,
         DNSNames |-> c.DNSNames,
         CRLDistributionPoints |-> <<>>,
         OCSPServer |-> <<>>,
         IssuingCertificateURL |-> <<>>],
        c.Class)

----------------------------------------------------------------------------
(* File system operations: each returns the error and the new directories  *)

\* os.MkdirAll(dir, 0755)
MkdirAll(dir) ==
    IF dirs[dir] = "dir" THEN [ok |-> TRUE, dirs |-> dirs]
    ELSE IF dirs[dir] = "file" THEN [ok |-> FALSE, dirs |-> dirs]
    ELSE IF dirs[Parent(dir)] = "dir" /\ Parent(dir) \in WritableDirs
    THEN [ok |-> TRUE, dirs |-> [dirs EXCEPT ![dir] = "dir"]]
    ELSE [ok |-> FALSE, dirs |-> dirs]

\* a file of this directory can be created or opened for writing
CanWrite(dir, path) == dirs[dir] = "dir" /\ (dir \in WritableDirs \/ path \in DOMAIN files)

\* the files after os.OpenFile(path, O_WRONLY|O_CREATE|O_TRUNC, mode) and a
\* write of data: an existing file keeps its mode
WriteFile(fs, path, mode, data) ==
    IF path \in DOMAIN fs
    THEN [fs EXCEPT ![path] = [mode |-> fs[path].mode, data |-> data]]
    ELSE (path :> [mode |-> mode, data |-> data]) @@ fs

\* the files after os.Remove(path) in dir (the error is ignored)
Remove(fs, dir, path) ==
    IF dir \in WritableDirs THEN [q \in DOMAIN fs \ {path} |-> fs[q]] ELSE fs

\* ensureWritableDirectory(dir)
ensureWritableDirectory(dir) ==
    IF dirs[dir] = "absent"
    THEN LET m == MkdirAll(dir)
         IN  IF m.ok THEN [err |-> nil, dirs |-> m.dirs, files |-> files]
             ELSE [err |-> Wrap("creating directory: %w", Errorf("mkdir", <<>>)),
                   dirs |-> dirs, files |-> files]
    ELSE IF dirs[dir] # "dir"
    THEN [err |-> Errorf("path exists but is not a directory", <<>>),
          dirs |-> dirs, files |-> files]
    ELSE LET testFile == Join(dir, ".test") IN
         IF ~CanWrite(dir, testFile)
         THEN [err |-> Errorf("directory is not writable", <<>>),
               dirs |-> dirs, files |-> files]
         ELSE [err |-> nil, dirs |-> dirs,
               files |-> Remove(WriteFile(files, testFile, 438, EmptyData), dir, testFile)]

----------------------------------------------------------------------------
(* Signing *)

\* the key pair of the CA whose files exist before the call
CAKeyPair == MaxKeyId + 1

\* a key pair that is not an RSA key pair (ECDSA, Ed25519): PKCS#8 holds it
\* and x509.ParsePKCS8PrivateKey returns it
ECKeyPair == MaxKeyId + 2

\* the dynamic type of the parsed key is *rsa.PrivateKey
IsRSA(k) == k # ECKeyPair

\* the certificate of that CA (ca.crt)
CACertificate ==
    [none |-> FALSE, SerialNumber |-> 0,
     Subject |-> [CommonName |-> "My Root CA", Organization |-> "My Company", Country |-> "US"],
     Issuer |-> [CommonName |-> "My Root CA", Organization |-> "My Company", Country |-> "US"],
     ValidityDays |-> 3650, IsCA |-> TRUE,
     KeyUsage |-> {"CertSign", "CRLSign", "DigitalSignature"},
     ExtKeyUsage |-> <<"ServerAuth", "ClientAuth", "CodeSigning", "EmailProtection", "TimeStamping">>,
     BasicConstraintsValid |-> TRUE,
     SubjectKeyId |-> CAKeyPair, AuthorityKeyId |-> CAKeyPair,
     MaxPathLen |-> 1, MaxPathLenZero |-> FALSE,
     PolicyIdentifiers |-> <<"2.5.29.32.0", "2.5.29.32.1">>,
     DNSNames |-> <<>>,
     CRLDistributionPoints |-> <<>>, OCSPServer |-> <<>>, IssuingCertificateURL |-> <<>>,
     PublicKey |-> CAKeyPair, SignedBy |-> CAKeyPair]

\* x509.CreateCertificate(rand, template, parent, pub, priv) followed by
\* x509.ParseCertificate: the issuer is the parent's subject, the authority
\* key id is the parent's subject key id unless the certificate is
\* self-issued or the parent has none
CreateCertificate(t, parent, pub, priv) ==
    [none |-> FALSE, SerialNumber |-> t.SerialNumber,
     Subject |-> t.Subject, Issuer |-> parent.Subject,
     ValidityDays |-> t.ValidityDays, IsCA |-> t.IsCA,
     KeyUsage |-> t.KeyUsage, ExtKeyUsage |-> t.ExtKeyUsage,
     BasicConstraintsValid |-> t.BasicConstraintsValid,
     SubjectKeyId |-> t.SubjectKeyId,
     AuthorityKeyId |-> IF parent.Subject # t.Subject /\ parent.SubjectKeyId # 0
                        THEN parent.SubjectKeyId ELSE t.AuthorityKeyId,
     MaxPathLen |-> t.MaxPathLen, MaxPathLenZero |-> t.MaxPathLenZero,
     PolicyIdentifiers |-> t.PolicyIdentifiers,
     DNSNames |-> t.DNSNames,
     CRLDistributionPoints |-> t.CRLDistributionPoints,
     OCSPServer |-> t.OCSPServer,
     IssuingCertificateURL |-> t.IssuingCertificateURL,
     PublicKey |-> pub, SignedBy |-> priv]

----------------------------------------------------------------------------
(* Initial states *)

CAConfigs ==
    [CommonName : CommonNameInputs, Organization : OrganizationInputs,
     Country : CountryInputs, ValidityDays : ValidityInputs, KeySize : KeySizeInputs,
     OutputDir : OutputDirInputs, Class : ClassInputs, Type : TypeInputs]

CertConfigs ==
    [CommonName : CommonNameInputs, Organization : OrganizationInputs,
     Country : CountryInputs, ValidityDays : ValidityInputs, KeySize : KeySizeInputs,
     DNSNames : DNSNamesInputs, OutputDir : OutputDirInputs, Class : ClassInputs,
     CACert : CACertInputs, CAKey : CAKeyInputs]

InitDirs ==
    [d \in {".", "certs", "new", "ro", "notadir", "ro/new"} |->
        CASE d \in {".", "certs", "ro"} -> "dir"
          [] d = "notadir" -> "file"
          [] OTHER -> "absent"]

InitFiles ==
    ("certs/ca.crt" :> [mode |-> certFileMode, data |-> CertPEM(CACertificate)]) @@
    ("certs/ca.key" :> [mode |-> keyFileMode, data |-> KeyPEM("PRIVATE KEY", CAKeyPair)])

\* the files when the directories certs and ro already hold a file of the
\* user named .test
ProbeFiles ==
    ("certs/.test" :> [mode |-> certFileMode, data |-> [type |-> "TEXT"]]) @@
    ("ro/.test" :> [mode |-> certFileMode, data |-> [type |-> "TEXT"]]) @@
    InitFiles

\* the YAML document of a CA request: the keys of CAConfig and the keys of
\* the "Class 3 CA Configuration" block of config/ca.yaml
CADocuments == {c @@ e : c \in CAConfigs, e \in ExtensionInputs}

\* loadConfig into a CAConfig: yaml.Unmarshal keeps the keys the struct
\* declares and ignores the others
loadConfig(doc) ==
    [CommonName |-> doc.CommonName, Organization |-> doc.Organization,
     Country |-> doc.Country, ValidityDays |-> doc.ValidityDays, KeySize |-> doc.KeySize,
     OutputDir |-> doc.OutputDir, Class |-> doc.Class, Type |-> doc.Type]

SignConfigs ==
    [CertPath : CertPathInputs, KeyPath : KeyPathInputs, CACertPath : CACertPathInputs,
     CAKeyPath : CAKeyPathInputs, OutputDir : OutputDirInputs]

TrustConfigs == [CertPath : TrustCertPathInputs, OutputDir : OutputDirInputs]

\* the leaf certificate an earlier GenerateCertificate left in certs/cert.crt
LeafCertificate ==
    CreateCertificate(
        createCertTemplate([CommonName |-> "example.com", Organization |-> "My Company",
                            Country |-> "US", ValidityDays |-> 365,
                            DNSNames |-> <<"example.com">>, Class |-> Class2], 1),
        CACertificate, 1, CAKeyPair)

\* the files after an earlier GenerateCertificate into certs, and a PKCS#8
\* key file that holds a key of another algorithm
IssuedFiles ==
    ("certs/cert.crt" :> [mode |-> 438, data |-> CertPEM(LeafCertificate)]) @@
    ("certs/cert.key" :> [mode |-> 438, data |-> KeyPEM("PRIVATE KEY", 1)]) @@
    ("certs/ec.key" :> [mode |-> keyFileMode, data |-> KeyPEM("PRIVATE KEY", ECKeyPair)]) @@
    InitFiles

\* the files after an earlier SignCertificate of certs/cert.crt into certs
SignedFiles ==
    ("certs/signed.crt" :>
        [mode |-> 438,
         data |-> CertPEM(CreateCertificate(LeafCertificate, CACertificate, 1, CAKeyPair))]) @@
    IssuedFiles

\* no writer goroutine started
NoSaving == [cert |-> "idle", key |-> "idle"]

\* no second call
NoPeer == [none |-> TRUE]

Init ==
    /\ op \in {"GenerateCA", "GenerateCertificate", "SignCertificate", "TrustCertificate"}
    /\ input \in CASE op = "GenerateCA" -> CADocuments
                  [] op = "GenerateCertificate" -> CertConfigs
                  [] op = "SignCertificate" -> SignConfigs
                  [] OTHER -> TrustConfigs
    /\ config = IF op = "GenerateCA" THEN loadConfig(input) ELSE input
    /\ pc = "Validate"
    /\ req = NoReq
    /\ err = nil
    /\ dirs = InitDirs
    /\ files0 \in CASE op = "SignCertificate" -> {IssuedFiles, SignedFiles}
                  [] op = "GenerateCA" -> {InitFiles, ProbeFiles}
                  [] OTHER -> {InitFiles}
    /\ files = files0
    /\ privateKey = 0
    /\ template = NoTemplate
    /\ ca = NoCA
    /\ cert = NoCert
    /\ trace = <<>>
    /\ saving = NoSaving
    /\ goos \in IF op = "TrustCertificate" THEN GOOSInputs ELSE {"linux"}
    /\ cmds = <<>>
    /\ peer = NoPeer

\* the entry point returns e
Return(e) == pc' = "return" /\ err' = e

----------------------------------------------------------------------------
(* GenerateCA *)

\* GenerateCA: config.Validate()
GenerateCA_Validate ==
    /\ op = "GenerateCA" /\ pc = "Validate"
    /\ LET r == CAConfigValidate(config) IN
       /\ config' = r.cfg
       /\ req' = r.req
       /\ IF r.err # nil
          THEN Return(Wrap("invalid CA configuration: %w", r.err))
          ELSE pc' = "ensureWritableDirectory" /\ err' = nil
    /\ trace' = Append(trace, "Validate")
    /\ UNCHANGED <<peer, op, input, files0, saving, goos, cmds, dirs, files, privateKey, template, ca, cert>>

\* GenerateCA: ensureWritableDirectory(config.OutputDir)
GenerateCA_EnsureDir ==
    /\ op = "GenerateCA" /\ pc = "ensureWritableDirectory"
    /\ LET r == ensureWritableDirectory(config.OutputDir) IN
       /\ dirs' = r.dirs
       /\ files' = r.files
       /\ IF r.err # nil
          THEN Return(Wrap("output directory error: %w", r.err))
          ELSE pc' = "generatePrivateKey" /\ err' = nil
    /\ trace' = Append(trace, "ensureWritableDirectory")
    /\ UNCHANGED <<peer, op, input, files0, saving, goos, cmds, req, config, privateKey, template, ca, cert>>

\* GenerateCA: generatePrivateKey(config.KeySize); rsa.GenerateKey draws a
\* key pair or fails
GenerateCA_KeyGen ==
    /\ op = "GenerateCA" /\ pc = "generatePrivateKey"
    /\ \/ \E k \in KeyIds : privateKey' = k /\ pc' = "createCATemplate" /\ err' = nil
       \/ privateKey' = privateKey
          /\ Return(Wrap("generating private key: %w", Errorf("rsa.GenerateKey", <<>>)))
    /\ trace' = Append(trace, "generatePrivateKey")
    /\ UNCHANGED <<peer, op, input, files0, saving, goos, cmds, req, config, dirs, files, template, ca, cert>>

\* GenerateCA: createCATemplate(config); the random source yields a serial
\* number and two key identifiers, or generateSerialNumber fails
GenerateCA_Template ==
    /\ op = "GenerateCA" /\ pc = "createCATemplate"
    /\ \/ \E serial \in SerialNumbers, skid \in KeyIds, akid \in KeyIds :
            /\ template' = createCATemplate(config, serial, skid, akid)
            /\ pc' = "generateAndSaveCertificate" /\ err' = nil
       \/ template' = template
          /\ Return(Wrap("generating serial number: %w", Errorf("rand.Int", <<>>)))
    /\ trace' = Append(trace, "createCATemplate")
    /\ UNCHANGED <<peer, op, input, files0, saving, goos, cmds, req, config, dirs, files, privateKey, ca, cert>>

\* saveCertificate(path, derBytes): the files after a successful
\* os.OpenFile(path, O_WRONLY|O_CREATE|O_TRUNC, certFileMode) and pem.Encode
saveCertificate(fs, path, c) == WriteFile(fs, path, certFileMode, CertPEM(c))

\* savePrivateKey(path, privateKey): the files after a successful
\* os.OpenFile(path, O_WRONLY|O_CREATE|O_TRUNC, keyFileMode) and pem.Encode
savePrivateKey(fs, path, k) == WriteFile(fs, path, keyFileMode, KeyPEM("PRIVATE KEY", k))

\* GenerateCA: generateAndSaveCertificate(template, template, pub, priv,
\* config.OutputDir, "ca", progress) up to wg.Add(2) and the two go
\* statements: sign and parse the certificate, start the two writers
GenerateCA_Sign ==
    /\ op = "GenerateCA" /\ pc = "generateAndSaveCertificate"
    /\ cert' = CreateCertificate(template, template, privateKey, privateKey)
    /\ saving' = [cert |-> "running", key |-> "running"]
    /\ pc' = "wg.Wait"
    /\ trace' = Append(trace, "CreateCertificate")
    /\ UNCHANGED <<peer, op, input, files0, goos, cmds, req, config, err, dirs, files, privateKey,
                   template, ca>>

\* generateAndSaveCertificate: the goroutine that runs saveCertificate; the
\* open succeeds when the directory allows it, and may fail for a reason
\* outside the program (no space left, too many open files)
GenerateCA_SaveCertificate ==
    /\ op = "GenerateCA" /\ pc = "wg.Wait" /\ saving.cert = "running"
    /\ LET path == Join(config.OutputDir, "ca.crt") IN
       \/ /\ CanWrite(config.OutputDir, path)
          /\ files' = saveCertificate(files, path, cert)
          /\ saving' = [saving EXCEPT !.cert = "done"]
       \/ /\ files' = files
          /\ saving' = [saving EXCEPT !.cert = "failed"]
    /\ trace' = Append(trace, "saveCertificate")
    /\ UNCHANGED <<peer, op, pc, input, files0, goos, cmds, req, config, err, dirs, privateKey,
                   template, ca, cert>>

\* generateAndSaveCertificate: the goroutine that runs savePrivateKey
GenerateCA_SavePrivateKey ==
    /\ op = "GenerateCA" /\ pc = "wg.Wait" /\ saving.key = "running"
    /\ LET path == Join(config.OutputDir, "ca.key") IN
       \/ /\ CanWrite(config.OutputDir, path)
          /\ files' = savePrivateKey(files, path, privateKey)
          /\ saving' = [saving EXCEPT !.key = "done"]
       \/ /\ files' = files
          /\ saving' = [saving EXCEPT !.key = "failed"]
    /\ trace' = Append(trace, "savePrivateKey")
    /\ UNCHANGED <<peer, op, pc, input, files0, goos, cmds, req, config, err, dirs, privateKey,
                   template, ca, cert>>

\* generateAndSaveCertificate returning as soon as the certificate writer is done
GenerateCA_Wait_CertOnly ==
    /\ op = "GenerateCA" /\ pc = "wg.Wait"
    /\ saving.cert \notin {"idle", "running"}
    /\ IF saving.cert = "failed"
       THEN cert' = NoCert
            /\ Return(Wrap("saving certificate: %w", Errorf("creating certificate file: %w", <<>>)))
       ELSE cert' = cert /\ Return(nil)
    /\ trace' = Append(trace, "wg.Wait")
    /\ UNCHANGED <<peer, op, input, files0, saving, goos, cmds, req, config, dirs, files, privateKey,
                   template, ca>>

\* generateAndSaveCertificate: wg.Wait() returns once both writers are done;
\* then certErr, then keyErr decide the result, and GenerateCA returns it
GenerateCA_Wait ==
    /\ op = "GenerateCA" /\ pc = "wg.Wait"
    /\ saving.cert \notin {"idle", "running"} /\ saving.key \notin {"idle", "running"}
    /\ IF saving.cert = "failed"
       THEN cert' = NoCert
            /\ Return(Wrap("saving certificate: %w", Errorf("creating certificate file: %w", <<>>)))
       ELSE IF saving.key = "failed"
       THEN cert' = NoCert
            /\ Return(Wrap("saving private key: %w", Errorf("creating private key file: %w", <<>>)))
       ELSE cert' = cert /\ Return(nil)
    /\ trace' = Append(trace, "wg.Wait")
    /\ UNCHANGED <<peer, op, input, files0, saving, goos, cmds, req, config, dirs, files, privateKey,
                   template, ca>>

----------------------------------------------------------------------------
(* GenerateCertificate *)

\* loadCA(certPath, keyPath): read and parse the two files
loadCA(certPath, keyPath) ==
    IF certPath \notin DOMAIN files
    THEN [ca |-> NoCA, err |-> Errorf("failed to read CA certificate: %w", <<>>)]
    ELSE IF files[certPath].data.type # "CERTIFICATE"
    THEN [ca |-> NoCA, err |-> Errorf("failed to parse CA certificate: %w", <<>>)]
    ELSE IF keyPath \notin DOMAIN files
    THEN [ca |-> NoCA, err |-> Errorf("failed to read CA private key: %w", <<>>)]
    ELSE IF files[keyPath].data.type # "PRIVATE KEY"
    THEN [ca |-> NoCA, err |-> Errorf("failed to parse CA private key: %w", <<>>)]
    ELSE [ca |-> [none |-> FALSE, cert |-> files[certPath].data.cert,
                  key |-> files[keyPath].data.key],
          err |-> nil]

\* writePEM(path, blockType, data): os.Create, then pem.Encode
writePEM(dir, path, data) ==
    IF CanWrite(dir, path)
    THEN [ok |-> TRUE, files |-> WriteFile(files, path, 438, data)]
    ELSE [ok |-> FALSE, files |-> files]

\* GenerateCertificate generating the key pair before it looks at the result
\* of config.Validate()
GenerateCertificate_Validate_KeyFirst ==
    /\ op = "GenerateCertificate" /\ pc = "Validate"
    /\ LET r == CertConfigValidate(config) IN
       /\ config' = r.cfg
       /\ req' = r.req
       /\ IF r.err # nil
          THEN Return(Wrap("invalid certificate configuration: %w", r.err))
          ELSE pc' = "createCertTemplate" /\ err' = nil
    /\ \E k \in KeyIds : privateKey' = k
    /\ trace' = Append(trace, "Validate")
    /\ UNCHANGED <<peer, op, input, files0, saving, goos, cmds, dirs, files, template, ca, cert>>

\* GenerateCertificate: config.Validate()
GenerateCertificate_Validate ==
    /\ op = "GenerateCertificate" /\ pc = "Validate"
    /\ LET r == CertConfigValidate(config) IN
       /\ config' = r.cfg
       /\ req' = r.req
       /\ IF r.err # nil
          THEN Return(Wrap("invalid certificate configuration: %w", r.err))
          ELSE pc' = "createCertTemplate" /\ err' = nil
    /\ trace' = Append(trace, "Validate")
    /\ UNCHANGED <<peer, op, input, files0, saving, goos, cmds, dirs, files, privateKey, template, ca, cert>>

\* GenerateCertificate going from the template straight to loadCA
GenerateCertificate_Template_SkipKeyGen ==
    /\ op = "GenerateCertificate" /\ pc = "createCertTemplate"
    /\ \/ \E serial \in SerialNumbers :
            /\ template' = createCertTemplate(config, serial)
            /\ pc' = "loadCA" /\ err' = nil
       \/ template' = template
          /\ Return(Wrap("failed to create certificate template: %w",
                         Errorf("generating serial number: %w", <<>>)))
    /\ trace' = Append(trace, "createCertTemplate")
    /\ UNCHANGED <<peer, op, input, files0, saving, goos, cmds, req, config, dirs, files, privateKey,
                   ca, cert>>

\* GenerateCertificate: createCertTemplate(config)
GenerateCertificate_Template ==
    /\ op = "GenerateCertificate" /\ pc = "createCertTemplate"
    /\ \/ \E serial \in SerialNumbers :
            /\ template' = createCertTemplate(config, serial)
            /\ pc' = "generatePrivateKey" /\ err' = nil
       \/ template' = template
          /\ Return(Wrap("failed to create certificate template: %w",
                         Errorf("generating serial number: %w", <<>>)))
    /\ trace' = Append(trace, "createCertTemplate")
    /\ UNCHANGED <<peer, op, input, files0, saving, goos, cmds, req, config, dirs, files, privateKey, ca, cert>>

\* GenerateCertificate: generatePrivateKey(config.KeySize)
GenerateCertificate_KeyGen ==
    /\ op = "GenerateCertificate" /\ pc = "generatePrivateKey"
    /\ \/ \E k \in KeyIds : privateKey' = k /\ pc' = "loadCA" /\ err' = nil
       \/ privateKey' = privateKey
          /\ Return(Wrap("failed to generate private key: %w",
                         Errorf("generating private key: %w", <<>>)))
    /\ trace' = Append(trace, "generatePrivateKey")
    /\ UNCHANGED <<peer, op, input, files0, saving, goos, cmds, req, config, dirs, files, template, ca, cert>>

\* GenerateCertificate: loadCA(config.CACert, config.CAKey)
GenerateCertificate_LoadCA ==
    /\ op = "GenerateCertificate" /\ pc = "loadCA"
    /\ LET r == loadCA(config.CACert, config.CAKey) IN
       /\ ca' = r.ca
       /\ IF r.err # nil
          THEN Return(Wrap("failed to load CA: %w", r.err))
          ELSE pc' = "CreateCertificate" /\ err' = nil
    /\ trace' = Append(trace, "loadCA")
    /\ UNCHANGED <<peer, op, input, files0, saving, goos, cmds, req, config, dirs, files, privateKey, template, cert>>

\* GenerateCertificate: x509.CreateCertificate(rand, template, caCert, pub, caKey)
GenerateCertificate_Sign ==
    /\ op = "GenerateCertificate" /\ pc = "CreateCertificate"
    /\ cert' = CreateCertificate(template, ca.cert, privateKey, ca.key)
    /\ pc' = "MkdirAll"
    /\ trace' = Append(trace, "CreateCertificate")
    /\ UNCHANGED <<peer, op, input, files0, saving, goos, cmds, req, config, err, dirs, files, privateKey, template, ca>>

\* GenerateCertificate: os.MkdirAll(config.OutputDir, 0755)
GenerateCertificate_MkdirAll ==
    /\ op = "GenerateCertificate" /\ pc = "MkdirAll"
    /\ LET m == MkdirAll(config.OutputDir) IN
       /\ dirs' = m.dirs
       /\ IF ~m.ok
          THEN Return(Wrap("failed to create output directory: %w", Errorf("mkdir", <<>>)))
          ELSE pc' = "writePEM" /\ err' = nil
    /\ trace' = Append(trace, "MkdirAll")
    /\ UNCHANGED <<peer, op, input, files0, saving, goos, cmds, req, config, files, privateKey, template, ca, cert>>

\* GenerateCertificate: writePEM(certPath, "CERTIFICATE", certDER)
GenerateCertificate_WriteCert ==
    /\ op = "GenerateCertificate" /\ pc = "writePEM"
    /\ LET certPath == Join(config.OutputDir, "cert.crt")
           w == writePEM(config.OutputDir, certPath, CertPEM(cert))
       IN
       /\ files' = w.files
       /\ IF ~w.ok
          THEN Return(Wrap("failed to write certificate: %w",
                           Errorf("failed to create file: %w", <<>>)))
          ELSE pc' = "writePEM(keyPath)" /\ err' = nil
    /\ trace' = Append(trace, "writePEM")
    /\ UNCHANGED <<peer, op, input, files0, saving, goos, cmds, req, config, dirs, privateKey,
                   template, ca, cert>>

\* GenerateCertificate: x509.MarshalPKCS8PrivateKey(privKey), then
\* writePEM(keyPath, "PRIVATE KEY", privKeyPEM)
GenerateCertificate_WriteKey ==
    /\ op = "GenerateCertificate" /\ pc = "writePEM(keyPath)"
    /\ LET keyPath == Join(config.OutputDir, "cert.key")
           w == writePEM(config.OutputDir, keyPath, KeyPEM("PRIVATE KEY", privateKey))
       IN
       /\ files' = w.files
       /\ IF ~w.ok
          THEN Return(Wrap("failed to write private key: %w",
                           Errorf("failed to create file: %w", <<>>)))
          ELSE Return(nil)
    /\ trace' = Append(trace, "writePEM(keyPath)")
    /\ UNCHANGED <<peer, op, input, files0, saving, goos, cmds, req, config, dirs, privateKey,
                   template, ca, cert>>

----------------------------------------------------------------------------
(* SignCertificate *)

\* SignCertificate: config.Validate()
SignCertificate_Validate ==
    /\ op = "SignCertificate" /\ pc = "Validate"
    /\ LET r == SignConfigValidate(config) IN
       /\ config' = r.cfg
       /\ IF r.err # nil
          THEN Return(Wrap("invalid signing configuration: %w", r.err))
          ELSE pc' = "ReadFile(CertPath)" /\ err' = nil
    /\ trace' = Append(trace, "Validate")
    /\ UNCHANGED <<peer, op, input, files0, saving, goos, cmds, req, dirs, files, privateKey,
                   template, ca, cert>>

\* SignCertificate: os.ReadFile(config.CertPath), pem.Decode, x509.ParseCertificate
SignCertificate_ReadCert ==
    /\ op = "SignCertificate" /\ pc = "ReadFile(CertPath)"
    /\ IF config.CertPath \notin DOMAIN files
       THEN template' = template
            /\ Return(Wrap("failed to read certificate: %w", Errorf("open", <<>>)))
       ELSE IF files[config.CertPath].data.type # "CERTIFICATE"
       THEN template' = template
            /\ Return(Wrap("failed to parse certificate: %w", Errorf("x509", <<>>)))
       ELSE template' = files[config.CertPath].data.cert
            /\ pc' = "ReadFile(KeyPath)" /\ err' = nil
    /\ trace' = Append(trace, "ReadFile(CertPath)")
    /\ UNCHANGED <<peer, op, input, files0, saving, goos, cmds, req, config, dirs, files, privateKey,
                   ca, cert>>

\* SignCertificate: os.ReadFile(config.KeyPath), pem.Decode, x509.ParsePKCS8PrivateKey
SignCertificate_ReadKey ==
    /\ op = "SignCertificate" /\ pc = "ReadFile(KeyPath)"
    /\ IF config.KeyPath \notin DOMAIN files
       THEN privateKey' = privateKey
            /\ Return(Wrap("failed to read private key: %w", Errorf("open", <<>>)))
       ELSE IF files[config.KeyPath].data.type # "PRIVATE KEY"
       THEN privateKey' = privateKey
            /\ Return(Wrap("failed to parse private key: %w", Errorf("x509", <<>>)))
       ELSE privateKey' = files[config.KeyPath].data.key
            /\ pc' = "loadCA" /\ err' = nil
    /\ trace' = Append(trace, "ReadFile(KeyPath)")
    /\ UNCHANGED <<peer, op, input, files0, saving, goos, cmds, req, config, dirs, files, template,
                   ca, cert>>

\* SignCertificate: loadCA(config.CACertPath, config.CAKeyPath)
SignCertificate_LoadCA ==
    /\ op = "SignCertificate" /\ pc = "loadCA"
    /\ LET r == loadCA(config.CACertPath, config.CAKeyPath) IN
       /\ ca' = r.ca
       /\ IF r.err # nil
          THEN Return(Wrap("failed to load CA: %w", r.err))
          ELSE pc' = "MkdirAll" /\ err' = nil
    /\ trace' = Append(trace, "loadCA")
    /\ UNCHANGED <<peer, op, input, files0, saving, goos, cmds, req, config, dirs, files, privateKey,
                   template, cert>>

\* SignCertificate: os.MkdirAll(config.OutputDir, 0755)
SignCertificate_MkdirAll ==
    /\ op = "SignCertificate" /\ pc = "MkdirAll"
    /\ LET m == MkdirAll(config.OutputDir) IN
       /\ dirs' = m.dirs
       /\ IF ~m.ok
          THEN Return(Wrap("failed to create output directory: %w", Errorf("mkdir", <<>>)))
          ELSE pc' = "CreateCertificate" /\ err' = nil
    /\ trace' = Append(trace, "MkdirAll")
    /\ UNCHANGED <<peer, op, input, files0, saving, goos, cmds, req, config, files, privateKey,
                   template, ca, cert>>

\* SignCertificate: x509.CreateCertificate(rand, cert, caCert,
\* &privKey.(*rsa.PrivateKey).PublicKey, caKey); the type assertion has no
\* ", ok" form, so it panics when the key is not an RSA key
SignCertificate_Sign ==
    /\ op = "SignCertificate" /\ pc = "CreateCertificate"
    /\ IF IsRSA(privateKey)
       THEN /\ cert' = CreateCertificate(template, ca.cert, privateKey, ca.key)
            /\ pc' = "writePEM"
            /\ trace' = Append(trace, "CreateCertificate")
       ELSE /\ cert' = cert
            /\ pc' = "panic"
            /\ trace' = Append(trace, "panic")
    /\ UNCHANGED <<peer, op, input, files0, saving, goos, cmds, req, config, err, dirs, files,
                   privateKey, template, ca>>

\* SignCertificate: writePEM(filepath.Join(config.OutputDir, "signed.crt"), ...)
SignCertificate_Write ==
    /\ op = "SignCertificate" /\ pc = "writePEM"
    /\ LET signedCertPath == Join(config.OutputDir, "signed.crt")
           w == writePEM(config.OutputDir, signedCertPath, CertPEM(cert))
       IN
       /\ files' = w.files
       /\ IF ~w.ok
          THEN Return(Wrap("failed to write signed certificate: %w",
                           Errorf("failed to create file: %w", <<>>)))
          ELSE Return(nil)
    /\ trace' = Append(trace, "writePEM")
    /\ UNCHANGED <<peer, op, input, files0, saving, goos, cmds, req, config, dirs, privateKey,
                   template, ca, cert>>

----------------------------------------------------------------------------
(* TrustCertificate and system.InstallAndTrustCA *)

\* how an external command ends: exit status 0; a failure whose output
\* mentions "authorization" or "permission"; any other failure
CommandOutcomes == {"ok", "permission", "other"}

\* exec.Command(name, ...).CombinedOutput() ending with the given outcome
Run(name, elevated, outcome) ==
    cmds' = Append(cmds, [name |-> name, elevated |-> elevated, outcome |-> outcome])

\* TrustCertificate returns the error of InstallAndTrustCA, wrapped
InstallError(msg) ==
    Return(Wrap("failed to install and trust certificate: %w", Errorf(msg, <<>>)))

\* TrustCertificate: config.Validate()
TrustCertificate_Validate ==
    /\ op = "TrustCertificate" /\ pc = "Validate"
    /\ LET r == TrustConfigValidate(config) IN
       /\ config' = r.cfg
       /\ IF r.err # nil
          THEN Return(Wrap("invalid trust configuration: %w", r.err))
          ELSE pc' = "MkdirAll" /\ err' = nil
    /\ trace' = Append(trace, "Validate")
    /\ UNCHANGED <<peer, op, input, files0, saving, goos, cmds, req, dirs, files, privateKey,
                   template, ca, cert>>

\* TrustCertificate: os.MkdirAll(config.OutputDir, 0755)
TrustCertificate_MkdirAll ==
    /\ op = "TrustCertificate" /\ pc = "MkdirAll"
    /\ LET m == MkdirAll(config.OutputDir) IN
       /\ dirs' = m.dirs
       /\ IF ~m.ok
          THEN Return(Wrap("failed to create output directory: %w", Errorf("mkdir", <<>>)))
          ELSE pc' = "WriteFile" /\ err' = nil
    /\ trace' = Append(trace, "MkdirAll")
    /\ UNCHANGED <<peer, op, input, files0, saving, goos, cmds, req, config, files, privateKey,
                   template, ca, cert>>

\* TrustCertificate going on to the installer when os.WriteFile failed
TrustCertificate_Copy_IgnoreWriteError ==
    /\ op = "TrustCertificate" /\ pc = "WriteFile"
    /\ LET trustedCertPath == Join(config.OutputDir, "trusted.crt") IN
       IF config.CertPath \notin DOMAIN files
       THEN files' = files
            /\ Return(Wrap("failed to read certificate: %w", Errorf("open", <<>>)))
       ELSE IF ~CanWrite(config.OutputDir, trustedCertPath)
       THEN files' = files
            /\ pc' = "InstallAndTrustCA" /\ err' = nil
       ELSE files' = WriteFile(files, trustedCertPath, certFileMode, files[config.CertPath].data)
            /\ pc' = "InstallAndTrustCA" /\ err' = nil
    /\ trace' = Append(trace, "WriteFile")
    /\ UNCHANGED <<peer, op, input, files0, saving, goos, cmds, req, config, dirs, privateKey,
                   template, ca, cert>>

\* TrustCertificate: os.ReadFile(config.CertPath), then
\* os.WriteFile(filepath.Join(config.OutputDir, "trusted.crt"), certPEM, 0644)
TrustCertificate_Copy ==
    /\ op = "TrustCertificate" /\ pc = "WriteFile"
    /\ LET trustedCertPath == Join(config.OutputDir, "trusted.crt") IN
       IF config.CertPath \notin DOMAIN files
       THEN files' = files
            /\ Return(Wrap("failed to read certificate: %w", Errorf("open", <<>>)))
       ELSE IF ~CanWrite(config.OutputDir, trustedCertPath)
       THEN files' = files
            /\ Return(Wrap("failed to write trusted certificate: %w", Errorf("open", <<>>)))
       ELSE files' = WriteFile(files, trustedCertPath, certFileMode, files[config.CertPath].data)
            /\ pc' = "InstallAndTrustCA" /\ err' = nil
    /\ trace' = Append(trace, "WriteFile")
    /\ UNCHANGED <<peer, op, input, files0, saving, goos, cmds, req, config, dirs, privateKey,
                   template, ca, cert>>

\* InstallAndTrustCA: switch runtime.GOOS
InstallAndTrustCA ==
    /\ op = "TrustCertificate" /\ pc = "InstallAndTrustCA"
    /\ CASE goos = "darwin" -> pc' = "security" /\ err' = nil
         [] goos = "linux" -> pc' = "sudo cp" /\ err' = nil
         [] goos = "windows" -> pc' = "certutil" /\ err' = nil
         [] OTHER -> InstallError("unsupported operating system: %s")
    /\ trace' = Append(trace, "InstallAndTrustCA")
    /\ UNCHANGED <<peer, op, input, files0, saving, goos, cmds, req, config, dirs, files, privateKey,
                   template, ca, cert>>

\* installAndTrustCADarwin: security add-trusted-cert
installAndTrustCADarwin_Security ==
    /\ op = "TrustCertificate" /\ pc = "security"
    /\ \E outcome \in CommandOutcomes :
          /\ Run("security", FALSE, outcome)
          /\ CASE outcome = "ok" -> Return(nil)
               [] outcome = "permission" -> pc' = "sudo security" /\ err' = nil
               [] OTHER -> InstallError("installing CA certificate: %s")
    /\ trace' = Append(trace, "security")
    /\ UNCHANGED <<peer, op, input, files0, saving, goos, req, config, dirs, files, privateKey,
                   template, ca, cert>>

\* installAndTrustCADarwin: the retry, sudo security add-trusted-cert
installAndTrustCADarwin_Sudo ==
    /\ op = "TrustCertificate" /\ pc = "sudo security"
    /\ \E outcome \in CommandOutcomes :
          /\ Run("security", TRUE, outcome)
          /\ IF outcome = "ok" THEN Return(nil)
             ELSE InstallError("installing CA certificate (with sudo): %s")
    /\ trace' = Append(trace, "sudo security")
    /\ UNCHANGED <<peer, op, input, files0, saving, goos, req, config, dirs, files, privateKey,
                   template, ca, cert>>

\* installAndTrustCALinux: sudo cp absPath destPath
installAndTrustCALinux_Copy ==
    /\ op = "TrustCertificate" /\ pc = "sudo cp"
    /\ \E outcome \in CommandOutcomes :
          /\ Run("cp", TRUE, outcome)
          /\ IF outcome = "ok" THEN pc' = "sudo update-ca-certificates" /\ err' = nil
             ELSE InstallError("copying CA certificate: %s")
    /\ trace' = Append(trace, "sudo cp")
    /\ UNCHANGED <<peer, op, input, files0, saving, goos, req, config, dirs, files, privateKey,
                   template, ca, cert>>

\* installAndTrustCALinux: sudo update-ca-certificates
installAndTrustCALinux_Update ==
    /\ op = "TrustCertificate" /\ pc = "sudo update-ca-certificates"
    /\ \E outcome \in CommandOutcomes :
          /\ Run("update-ca-certificates", TRUE, outcome)
          /\ IF outcome = "ok" THEN Return(nil)
             ELSE InstallError("updating CA certificates: %s")
    /\ trace' = Append(trace, "sudo update-ca-certificates")
    /\ UNCHANGED <<peer, op, input, files0, saving, goos, req, config, dirs, files, privateKey,
                   template, ca, cert>>

\* installAndTrustCAWindows: certutil -addstore -f ROOT
installAndTrustCAWindows_Certutil ==
    /\ op = "TrustCertificate" /\ pc = "certutil"
    /\ \E outcome \in CommandOutcomes :
          /\ Run("certutil", FALSE, outcome)
          /\ IF outcome = "ok" THEN Return(nil)
             ELSE pc' = "powershell" /\ err' = nil
    /\ trace' = Append(trace, "certutil")
    /\ UNCHANGED <<peer, op, input, files0, saving, goos, req, config, dirs, files, privateKey,
                   template, ca, cert>>

\* installAndTrustCAWindows: powershell Start-Process certutil -Verb RunAs
installAndTrustCAWindows_RunAs ==
    /\ op = "TrustCertificate" /\ pc = "powershell"
    /\ \E outcome \in CommandOutcomes :
          /\ Run("certutil", TRUE, outcome)
          /\ IF outcome = "ok" THEN Return(nil)
             ELSE InstallError("installing CA certificate: %s")
    /\ trace' = Append(trace, "powershell")
    /\ UNCHANGED <<peer, op, input, files0, saving, goos, req, config, dirs, files, privateKey,
                   template, ca, cert>>

----------------------------------------------------------------------------

Next ==
    \/ GenerateCA_Validate
    \/ GenerateCA_EnsureDir
    \/ GenerateCA_KeyGen
    \/ GenerateCA_Template
    \/ GenerateCA_Sign
    \/ GenerateCA_SaveCertificate
    \/ GenerateCA_SavePrivateKey
    \/ GenerateCA_Wait
    \/ GenerateCertificate_Validate
    \/ GenerateCertificate_Template
    \/ GenerateCertificate_KeyGen
    \/ GenerateCertificate_LoadCA
    \/ GenerateCertificate_Sign
    \/ GenerateCertificate_MkdirAll
    \/ GenerateCertificate_WriteCert
    \/ GenerateCertificate_WriteKey
    \/ SignCertificate_Validate
    \/ SignCertificate_ReadCert
    \/ SignCertificate_ReadKey
    \/ SignCertificate_LoadCA
    \/ SignCertificate_MkdirAll
    \/ SignCertificate_Sign
    \/ SignCertificate_Write
    \/ TrustCertificate_Validate
    \/ TrustCertificate_MkdirAll
    \/ TrustCertificate_Copy
    \/ InstallAndTrustCA
    \/ installAndTrustCADarwin_Security
    \/ installAndTrustCADarwin_Sudo
    \/ installAndTrustCALinux_Copy
    \/ installAndTrustCALinux_Update
    \/ installAndTrustCAWindows_Certutil
    \/ installAndTrustCAWindows_RunAs

Spec == Init /\ [][Next]_vars

----------------------------------------------------------------------------
(* Two concurrent calls of one issuance entry point.  The variables pc,    *)
(* config, req, err, privateKey, template, ca, cert, trace and saving are  *)
(* the locals of the call the scheduler is running, peer holds those of    *)
(* the other call; the file system is the one both calls work on.          *)

\* valid CA requests into a directory that exists or that is still to be made
ConcurrentCADocuments ==
    {d \in CADocuments :
        /\ d.CommonName # "" /\ d.Organization # "" /\ d.Country # ""
        /\ d.OutputDir \in {"certs/", "./new"}
        /\ d.CRLDistributionPoints = <<>>
        /\ \/ d.Type = Intermediate /\ d.Class = Class1 /\ d.KeySize = 0
              /\ d.ValidityDays = 0
           \/ d.Type = Root /\ d.Class = Class2 /\ d.KeySize = 4096
              /\ d.ValidityDays = 1825}

\* valid leaf requests into such a directory
ConcurrentCertConfigs ==
    {c \in CertConfigs :
        /\ c.CommonName # "" /\ c.Organization # "" /\ c.Country # ""
        /\ c.OutputDir \in {"certs/", "./new"}
        /\ c.Class = Class2 /\ c.KeySize = 0 /\ c.ValidityDays = 0 /\ c.DNSNames = <<>>
        /\ c.CACert = "certs/ca.crt" /\ c.CAKey = "certs/ca.key"}

\* both calls are at their entry, with equal requests
InitConcurrent ==
    /\ op \in {"GenerateCA", "GenerateCertificate"}
    /\ input \in IF op = "GenerateCA" THEN ConcurrentCADocuments ELSE ConcurrentCertConfigs
    /\ config = IF op = "GenerateCA" THEN loadConfig(input) ELSE input
    /\ pc = "Validate"
    /\ req = NoReq
    /\ err = nil
    /\ dirs = InitDirs
    /\ files0 = InitFiles
    /\ files = files0
    /\ privateKey = 0
    /\ template = NoTemplate
    /\ ca = NoCA
    /\ cert = NoCert
    /\ trace = <<>>
    /\ saving = NoSaving
    /\ goos = "linux"
    /\ cmds = <<>>
    /\ peer = [id |-> 2, pc |-> "Validate", config |-> config, req |-> NoReq, err |-> nil,
               privateKey |-> 0, template |-> NoTemplate, ca |-> NoCA, cert |-> NoCert,
               trace |-> <<>>, saving |-> NoSaving]

\* the scheduler takes the running call off the processor and runs the other
\* call, which has not returned yet
Reschedule ==
    /\ peer # NoPeer
    /\ peer.pc # "return"
    /\ peer' = [id |-> 3 - peer.id, pc |-> pc, config |-> config, req |-> req, err |-> err,
                privateKey |-> privateKey, template |-> template, ca |-> ca, cert |-> cert,
                trace |-> trace, saving |-> saving]
    /\ pc' = peer.pc
    /\ config' = peer.config
    /\ req' = peer.req
    /\ err' = peer.err
    /\ privateKey' = peer.privateKey
    /\ template' = peer.template
    /\ ca' = peer.ca
    /\ cert' = peer.cert
    /\ trace' = peer.trace
    /\ saving' = peer.saving
    /\ UNCHANGED <<op, input, dirs, files, files0, goos, cmds>>

NextConcurrent ==
    \/ GenerateCA_Validate
    \/ GenerateCA_EnsureDir
    \/ GenerateCA_KeyGen
    \/ GenerateCA_Template
    \/ GenerateCA_Sign
    \/ GenerateCA_SaveCertificate
    \/ GenerateCA_SavePrivateKey
    \/ GenerateCA_Wait
    \/ GenerateCertificate_Validate
    \/ GenerateCertificate_Template
    \/ GenerateCertificate_KeyGen
    \/ GenerateCertificate_LoadCA
    \/ GenerateCertificate_Sign
    \/ GenerateCertificate_MkdirAll
    \/ GenerateCertificate_WriteCert
    \/ GenerateCertificate_WriteKey
    \/ Reschedule

SpecConcurrent == InitConcurrent /\ [][NextConcurrent]_vars

----------------------------------------------------------------------------
(* Properties *)

\* the call is an issuance: GenerateCA or GenerateCertificate
Issuance == op \in {"GenerateCA", "GenerateCertificate"}

\* the Validate of an issuance request has returned
Validated == Issuance /\ Len(trace) >= 1

\* it returned an error (the entry point wraps it and returns)
ValidateFailed ==
    /\ Validated
    /\ err.wrap \in {"invalid CA configuration: %w", "invalid certificate configuration: %w"}

\* Validate returned nil
ValidateOK == Validated /\ ~ValidateFailed

CARequest == op = "GenerateCA"
LeafRequest == op = "GenerateCertificate"
RootRequest == CARequest /\ input.Type = Root

\* the request carries commonName, organization and country
HasRequiredFields ==
    input.CommonName # "" /\ input.Organization # "" /\ input.Country # ""

\* the request field an error message names
NamedField(msg) ==
    CASE msg = "commonName is required" -> "commonName"
      [] msg = "organization is required" -> "organization"
      [] msg = "country is required" -> "country"
      [] msg \in {"keySize must be at least %d bits for Class %d CA",
                  "keySize must be at least %d bits for Class %d certificate",
                  "root certificates must use at least 4096-bit keys"} -> "keySize"
      [] msg \in {"validity period cannot exceed %d days for Class %d CA",
                  "validity period cannot exceed %d days for Class %d certificate",
                  "root certificates should have at least 5 years validity"} -> "validityDays"
      [] msg = "root certificates must be Class 2 or higher" -> "class"
      [] msg = "caCert path is required" -> "caCert"
      [] msg = "caKey path is required" -> "caKey"
      [] msg = "CA certificate not found at %s" -> "caCert"
      [] msg = "CA private key not found at %s" -> "caKey"
      [] OTHER -> ""

\* the root conditions a request violates
RootViolations(c) ==
    (IF c.Class >= 2 THEN {} ELSE {"class"})
    \cup (IF c.KeySize >= 4096 THEN {} ELSE {"keySize"})
    \cup (IF c.ValidityDays >= 1825 THEN {} ELSE {"validityDays"})

\* C1: for a root CA request, CAConfig.Validate succeeds only if the values
\* left in the request satisfy class >= 2, keySize >= 4096 and
\* validityDays >= 1825; a request that violates one of them is rejected, and
\* (once the presence checks that come first have passed, so that the class
\* is resolved and the defaults are applied) the error names a violated field.
C1_RootRules ==
    RootRequest /\ Validated =>
        /\ ValidateOK => RootViolations(config) = {}
        /\ RootViolations(config) # {} => ValidateFailed
        /\ RootViolations(config) # {} /\ HasRequiredFields =>
               NamedField(err.msg) \in RootViolations(config)

\* a root request passed validation
C1_Witness == RootRequest /\ ValidateOK /\ RootViolations(config) = {}

\* a root request that has the required fields and satisfies the three root
\* conditions as given
GoodRoot ==
    /\ RootRequest /\ HasRequiredFields
    /\ input.Class \in {2, 3} /\ input.KeySize >= 4096 /\ input.ValidityDays >= 1825

\* C2: a root CA request with the required fields, class in {2,3},
\* keySize >= 4096 and validityDays >= 1825 passes CAConfig.Validate with its
\* validityDays kept, also when validityDays exceeds the class maximum.
C2_RootNoCeiling ==
    GoodRoot /\ Validated =>
        ValidateOK /\ config.ValidityDays = input.ValidityDays

\* the class 2 root of 3650 days (class maximum 1095) passed validation
C2_Witness ==
    /\ GoodRoot /\ ValidateOK
    /\ input.Class = 2 /\ input.KeySize = 4096 /\ input.ValidityDays = 3650
    /\ config.ValidityDays > req.maxValidityDays

\* C3: after a successful Validate the class is 1, 2 or 3, and a zero class
\* has become 1.
C3_ClassInRange ==
    ValidateOK =>
        /\ config.Class \in {Class1, Class2, Class3}
        /\ input.Class = 0 => config.Class = Class1

\* the policy table of the specification: class, minimum key bits, maximum days
PolicyTable(class) ==
    IF class = 1 THEN [minKeySize |-> 2048, maxValidityDays |-> 1825]
    ELSE IF class = 2 THEN [minKeySize |-> 3072, maxValidityDays |-> 1095]
    ELSE IF class = 3 THEN [minKeySize |-> 4096, maxValidityDays |-> 730]
    ELSE [minKeySize |-> 2048, maxValidityDays |-> 1825]

\* C4: getClassRequirements is total and equals the policy table, with every
\* class outside 1..3 resolved to the row of class 1; the minimum key size
\* strictly increases and the maximum validity strictly decreases with the
\* class; the requirements Validate resolved are the row of the request's class.
C4_PolicyTable ==
    /\ \A c \in ClassInputs : getClassRequirements(c) = PolicyTable(c)
    /\ \A c \in {Class1, Class2} :
          /\ getClassRequirements(c).minKeySize < getClassRequirements(c + 1).minKeySize
          /\ getClassRequirements(c).maxValidityDays > getClassRequirements(c + 1).maxValidityDays
    /\ req # NoReq => req = PolicyTable(config.Class)

\* a request of a class outside 1..3 was validated against the row of class 1
C4_Witness ==
    /\ ValidateOK /\ config.Class \notin {Class1, Class2, Class3}
    /\ req = [minKeySize |-> 2048, maxValidityDays |-> 1825]

\* the class Validate resolves for the request: 1 when unset
ResolvedClass == IF input.Class = 0 THEN Class1 ELSE input.Class

\* the minimum key size and the maximum validity of the resolved class
ClassMin == getClassRequirements(ResolvedClass).minKeySize
ClassMax == getClassRequirements(ResolvedClass).maxValidityDays

KeySizeErrors ==
    {"keySize must be at least %d bits for Class %d CA",
     "keySize must be at least %d bits for Class %d certificate"}

ValidityErrors ==
    {"validity period cannot exceed %d days for Class %d CA",
     "validity period cannot exceed %d days for Class %d certificate"}

\* the key size check rejects the request as given
KeySizeTooSmall == input.KeySize > 0 /\ input.KeySize < ClassMin

NonRootRequest == LeafRequest \/ (CARequest /\ input.Type # Root)

\* C6: after a successful Validate of a non-root CA or of a leaf request,
\* validityDays is at most the maximum of the resolved class; a request with
\* a validityDays above that maximum is rejected, and when the checks that
\* come first (required fields, key size) pass, the error states the maximum.
C6_ValidityCeiling ==
    NonRootRequest /\ Validated =>
        /\ ValidateOK => config.ValidityDays <= ClassMax
        /\ input.ValidityDays > ClassMax => ValidateFailed
        /\ input.ValidityDays > ClassMax /\ HasRequiredFields /\ ~KeySizeTooSmall =>
               /\ err.msg = IF CARequest
                            THEN "validity period cannot exceed %d days for Class %d CA"
                            ELSE "validity period cannot exceed %d days for Class %d certificate"
               /\ err.args = <<ClassMax, ResolvedClass>>

\* an intermediate CA of class 2 asking for more than 1095 days was rejected
C6_Witness ==
    /\ CARequest /\ input.Type = Intermediate /\ ValidateFailed
    /\ input.Class = 2 /\ input.ValidityDays > 1095
    /\ err.msg = "validity period cannot exceed %d days for Class %d CA"
    /\ err.args = <<1095, 2>>

C8_Defaults ==
    ValidateOK =>
        /\ input.KeySize = 0 => config.KeySize = ClassMin /\ config.KeySize = req.minKeySize
        /\ input.ValidityDays = 0 =>
               config.ValidityDays = ClassMax /\ config.ValidityDays = req.maxValidityDays

\* a class 3 request with neither value set passed with 4096 bits and 730 days
C8_Witness ==
    /\ ValidateOK /\ input.Class = 3
    /\ input.KeySize = 0 /\ config.KeySize = 4096
    /\ input.ValidityDays = 0 /\ config.ValidityDays = 730

\* C9: a leaf request with empty dnsNames that passes CertConfig.Validate has
\* dnsNames = [commonName] afterwards; a non-empty dnsNames is unchanged.
C9_DNSNamesDefault ==
    LeafRequest /\ ValidateOK =>
        IF input.DNSNames = <<>>
        THEN config.DNSNames = <<input.CommonName>>
        ELSE config.DNSNames = input.DNSNames

\* a leaf request without dnsNames passed validation
C9_Witness ==
    /\ LeafRequest /\ ValidateOK
    /\ input.DNSNames = <<>> /\ config.DNSNames = <<"example.com">>

\* the entry point returned an error about the output directory
DirectoryError ==
    /\ Issuance
    /\ err.wrap \in {"output directory error: %w", "failed to create output directory: %w"}

CreatedFiles == DOMAIN files \ DOMAIN files0

RootIssued == op = "GenerateCA" /\ input.Type = Root /\ cert # NoCert

\* C12: every root certificate GenerateCA issues has its own subject as
\* issuer, authorityKeyId = subjectKeyId, and is signed with the key pair
\* whose public half it carries.
C12_RootSelfSigned ==
    RootIssued =>
        /\ cert.Issuer = cert.Subject
        /\ cert.AuthorityKeyId = cert.SubjectKeyId
        /\ cert.PublicKey = privateKey /\ cert.SignedBy = privateKey

\* GenerateCA returned a root certificate and both of its files are written
C12_Witness ==
    /\ RootIssued /\ pc = "return" /\ err = nil
    /\ cert.Issuer = cert.Subject /\ cert.AuthorityKeyId = cert.SubjectKeyId
    /\ files[Join(config.OutputDir, "ca.crt")].data = CertPEM(cert)

\* C13: every intermediate CA and every leaf certificate is signed with the
\* parent CA's certificate and private key, never with its own template and
\* key, and its authorityKeyId is the parent's subjectKeyId.
C13_IssuedByParent ==
    Issuance /\ NonRootRequest /\ cert # NoCert =>
        /\ ca # NoCA
        /\ cert.SignedBy = ca.key /\ cert.SignedBy # cert.PublicKey
        /\ cert.Issuer = ca.cert.Subject
        /\ cert.AuthorityKeyId = ca.cert.SubjectKeyId

SignRequest == op = "SignCertificate"

\* SignConfig.Validate has returned / returned an error / returned nil
SignValidated == SignRequest /\ Len(trace) >= 1
SignValidateFailed == SignValidated /\ err.wrap = "invalid signing configuration: %w"
SignValidateOK == SignValidated /\ ~SignValidateFailed

\* the four paths of the sign request
SignPaths == {input.CertPath, input.KeyPath, input.CACertPath, input.CAKeyPath}

\* C14: a sign request passes SignConfig.Validate only if its four paths are
\* non-empty and are existing files; when validation fails SignCertificate
\* returns the error, which names the path (or the empty field), and has
\* read no file.
C14_SignValidation ==
    /\ SignValidateOK => \A path \in SignPaths : path # "" /\ path \in DOMAIN files0
    /\ SignValidateFailed =>
          /\ pc = "return" /\ trace = <<"Validate">>
          /\ template = NoTemplate /\ privateKey = 0 /\ ca = NoCA
          /\ \/ err.path \in SignPaths \ {""}
             \/ err.msg \in {"certPath is required", "keyPath is required",
                              "caCertPath is required", "caKeyPath is required"}

\* generateAndSaveCertificate has started its two writers
WritersStarted == op = "GenerateCA" /\ saving # NoSaving

\* position of the first call of that name in the trace (0 = never called)
First(name) ==
    IF \E i \in 1..Len(trace) : trace[i] = name
    THEN CHOOSE i \in 1..Len(trace) :
             trace[i] = name /\ \A j \in 1..(i - 1) : trace[j] # name
    ELSE 0

\* C15: in generateAndSaveCertificate the certificate write and the key write
\* are two tasks that may finish in either order and have both finished when
\* the function returns; if either write failed the function returns an error
\* and no certificate, even when the other write succeeded, and the file the
\* other one wrote is still there.
C15_BothWritersJoined ==
    WritersStarted /\ pc = "return" =>
        /\ saving.cert \in {"done", "failed"} /\ saving.key \in {"done", "failed"}
        /\ First("saveCertificate") < First("wg.Wait")
        /\ First("savePrivateKey") < First("wg.Wait")
        /\ "failed" \in {saving.cert, saving.key} <=> err # nil
        /\ err # nil => cert = NoCert
        /\ saving.cert = "done" =>
               /\ Join(config.OutputDir, "ca.crt") \in DOMAIN files
               /\ files[Join(config.OutputDir, "ca.crt")].data.type = "CERTIFICATE"
               /\ files[Join(config.OutputDir, "ca.crt")].data.cert.PublicKey = privateKey
        /\ saving.key = "done" =>
               /\ Join(config.OutputDir, "ca.key") \in DOMAIN files
               /\ files[Join(config.OutputDir, "ca.key")].data =
                      KeyPEM("PRIVATE KEY", privateKey)

\* the key writer ran first and failed, the certificate writer then wrote
\* ca.crt, and GenerateCA returned the key writer's error
C15_Witness ==
    /\ WritersStarted /\ pc = "return"
    /\ saving = [cert |-> "done", key |-> "failed"]
    /\ First("savePrivateKey") < First("saveCertificate")
    /\ err.wrap = "saving private key: %w" /\ cert = NoCert
    /\ Join(config.OutputDir, "ca.crt") \in CreatedFiles

\* the platforms InstallAndTrustCA supports
SupportedPlatforms == {"darwin", "linux", "windows"}

\* the i-th command run repeats the command before it
IsRetry(i) == i > 1 /\ cmds[i].name = cmds[i - 1].name

\* C16: trust installation retries the platform command at most once, with
\* elevated privileges, and only after a first attempt that failed with a
\* permission-denied response; any other failure of the first attempt is
\* returned without a retry, on darwin, linux and windows alike; an
\* unsupported platform returns an error and runs no command.
C16_RetryOnPermissionOnly ==
    op = "TrustCertificate" =>
        /\ Cardinality({i \in 1..Len(cmds) : IsRetry(i)}) <= 1
        /\ \A i \in 1..Len(cmds) :
              IsRetry(i) =>
                  /\ cmds[i].elevated /\ ~cmds[i - 1].elevated
                  /\ cmds[i - 1].outcome = "permission"
        /\ Len(cmds) >= 1 /\ cmds[1].outcome = "other" =>
              Len(cmds) = 1 /\ pc = "return" /\ err # nil
        /\ goos \notin SupportedPlatforms =>
              /\ cmds = <<>>
              /\ First("InstallAndTrustCA") > 0 => pc = "return" /\ err # nil

\* the path SignCertificate writes the signed certificate to
signedCertPath == Join(config.OutputDir, "signed.crt")

\* C17: for every sign request that passes validation, the file
\* SignCertificate writes is a different path from the input certificate, and
\* the input certificate file is left as it was.
C17_SignedPathDistinct ==
    SignValidateOK /\ First("writePEM") > 0 /\ err = nil =>
        /\ signedCertPath # config.CertPath
        /\ files[config.CertPath] = files0[config.CertPath]

\* C18: a class 3 CA template built by createCATemplate carries the CRL
\* distribution points, the OCSP responder URLs and the issuer-certificate
\* URLs of the request, and the "any policy" OID.
C18_Class3Extensions ==
    op = "GenerateCA" /\ template # NoTemplate /\ config.Class = Class3 =>
        /\ template.CRLDistributionPoints = input.CRLDistributionPoints
        /\ template.OCSPServer = input.OCSPServers
        /\ template.IssuingCertificateURL = input.IssuingCertificateURLs
        /\ \E i \in 1..Len(template.PolicyIdentifiers) :
               template.PolicyIdentifiers[i] = "2.5.29.32.0"

\* positions in the trace of the steps of an issuance (0 = not yet taken)
TemplateStep == First("createCATemplate") + First("createCertTemplate")
KeyStep == First("generatePrivateKey")
SignStep == First("CreateCertificate")
PersistSteps ==
    {First("saveCertificate"), First("savePrivateKey"), First("writePEM"),
     First("writePEM(keyPath)")} \ {0}

\* the path is that of a probe file of ensureWritableDirectory
IsProbe(path) == \E d \in DOMAIN InitDirs : path = Join(d, ".test")

\* apart from the probe file, the files are as they were before the call
OutputsUntouched ==
    \A path \in (DOMAIN files \cup DOMAIN files0) :
        ~IsProbe(path) =>
            path \in DOMAIN files /\ path \in DOMAIN files0 /\ files[path] = files0[path]

\* C19 as stated: in GenerateCA and in GenerateCertificate the steps run in the
\* order validate, build template, generate key pair, sign, persist: the
\* template is built before the key pair is generated, the key pair before
\* signing, and signing is over before any file is written.
C19_Original ==
    Issuance =>
        /\ Len(trace) >= 1 => trace[1] = "Validate"
        /\ KeyStep > 0 => 0 < TemplateStep /\ TemplateStep < KeyStep
        /\ SignStep > 0 => 0 < KeyStep /\ KeyStep < SignStep
        /\ \A i \in PersistSteps : 0 < SignStep /\ SignStep < i
        /\ SignStep = 0 => OutputsUntouched

\* C19 (amended): every issuance validates first and takes each step once;
\* GenerateCertificate builds the template before it generates the key pair,
\* GenerateCA generates the key pair before it builds the template; in both
\* the template and the key pair exist before signing starts, signing is over
\* before a certificate or key file is written, and until then the files are
\* as they were (but for the probe file of ensureWritableDirectory).
C19_IssuanceOrder ==
    Issuance =>
        /\ Len(trace) >= 1 => trace[1] = "Validate"
        /\ \A i, j \in 1..Len(trace) : trace[i] = trace[j] => i = j
        /\ op = "GenerateCertificate" /\ KeyStep > 0 =>
               0 < TemplateStep /\ TemplateStep < KeyStep
        /\ op = "GenerateCA" /\ TemplateStep > 0 =>
               0 < KeyStep /\ KeyStep < TemplateStep
        /\ SignStep > 0 =>
               /\ 0 < KeyStep /\ KeyStep < SignStep
               /\ 0 < TemplateStep /\ TemplateStep < SignStep
        /\ \A i \in PersistSteps : 0 < SignStep /\ SignStep < i
        /\ SignStep = 0 => OutputsUntouched

\* GenerateCA ran to the end: key pair, then template, then signing, then
\* the two writes
C19_Witness ==
    /\ op = "GenerateCA" /\ pc = "return" /\ err = nil
    /\ 0 < KeyStep /\ KeyStep < TemplateStep /\ TemplateStep < SignStep
    /\ PersistSteps # {} /\ \A i \in PersistSteps : SignStep < i

\* the error Validate returns on the request as it was handed in
ExpectedValidateError ==
    CASE op = "GenerateCA" -> CAConfigValidate(loadConfig(input)).err
      [] op = "GenerateCertificate" -> CertConfigValidate(input).err
      [] op = "SignCertificate" -> SignConfigValidate(input).err
      [] OTHER -> TrustConfigValidate(input).err

\* the entry point returned the error of Validate
ValidationFailed ==
    /\ Len(trace) >= 1
    /\ err.wrap \in {"invalid CA configuration: %w", "invalid certificate configuration: %w",
                    "invalid signing configuration: %w"}

\* C20: in GenerateCA, GenerateCertificate and SignCertificate a request that
\* fails validation makes the operation return that error at once: no serial
\* number, template or key is generated, no file is read, nothing is signed,
\* and no file or directory is created or written.
C20_ValidationFirst ==
    op \in {"GenerateCA", "GenerateCertificate", "SignCertificate"} /\ Len(trace) >= 1 =>
        /\ ExpectedValidateError # nil => ValidationFailed
        /\ ValidationFailed =>
              /\ pc = "return" /\ trace = <<"Validate">>
              /\ [err EXCEPT !.wrap = ""] = ExpectedValidateError
              /\ privateKey = 0 /\ template = NoTemplate /\ ca = NoCA /\ cert = NoCert
              /\ files = files0 /\ dirs = InitDirs
              /\ saving = NoSaving /\ cmds = <<>>

\* a sign request naming a CA key that does not exist was rejected
C20_Witness ==
    /\ SignRequest /\ ValidationFailed /\ pc = "return"
    /\ err.msg = "CA private key not found at %s" /\ err.path = "missing/ca.key"
    /\ files = files0

\* the set of the entries of a list
Range(s) == {s[i] : i \in 1..Len(s)}

\* the "Usage" line of each class in the class table
AllowedEKU(class) ==
    CASE class = 1 -> {"ClientAuth", "EmailProtection"}
      [] class = 2 -> {"ServerAuth", "ClientAuth"}
      [] class = 3 -> {"ServerAuth", "ClientAuth", "CodeSigning"}
      [] OTHER -> {"ClientAuth", "EmailProtection"}

\* a CA template has been built by createCATemplate
CATemplateBuilt == op = "GenerateCA" /\ template # NoTemplate

\* a leaf template has been built by createCertTemplate
LeafTemplateBuilt == op = "GenerateCertificate" /\ template # NoTemplate

\* C21: the extended key usages of every intermediate CA template and of
\* every leaf template are exactly the allowed usages of the request's class
\* (class 1: ClientAuth, EmailProtection; class 2: ServerAuth, ClientAuth;
\* class 3: ServerAuth, ClientAuth, CodeSigning), without TimeStamping.
C21_ClassEKU ==
    /\ CATemplateBuilt /\ config.Type = Intermediate /\ config.Class \in {1, 2, 3} =>
           Range(template.ExtKeyUsage) = AllowedEKU(config.Class)
    /\ LeafTemplateBuilt /\ config.Class \in {1, 2, 3} =>
           Range(template.ExtKeyUsage) = AllowedEKU(config.Class)

\* the "intermediate CAs allowed" line of each class in the class table
MaxPathLength(class) ==
    CASE class = 1 -> 0
      [] class = 2 -> 1
      [] class = 3 -> 2
      [] OTHER -> 0

\* x509: MaxPathLen = 0 without MaxPathLenZero means "no constraint"
NoPathLenConstraint(t) == t.MaxPathLen = 0 /\ ~t.MaxPathLenZero

\* C22: every CA template built from a validated request has the path length
\* of its class (0, 1, 2 for classes 1, 2, 3), with the explicit-zero marker
\* set exactly when the path length is 0; a class 2 root has path length 1,
\* and no CA template is left without a path length constraint.
C22_PathLength ==
    CATemplateBuilt =>
        /\ template.MaxPathLen = MaxPathLength(config.Class)
        /\ template.MaxPathLenZero <=> (MaxPathLength(config.Class) = 0)
        /\ config.Type = Root /\ config.Class = Class2 => template.MaxPathLen = 1
        /\ ~NoPathLenConstraint(template)

RootKeyUsage == {"CertSign", "CRLSign", "DigitalSignature"}
RootEKU == {"ServerAuth", "ClientAuth", "CodeSigning", "EmailProtection", "TimeStamping"}

\* C23 as stated: a root template has key usage {certSign, crlSign,
\* digitalSignature} and the five extended key usages whatever the class; an
\* intermediate template has isCA = true and the key usage of a root template.
C23_Original ==
    CATemplateBuilt =>
        /\ template.IsCA
        /\ config.Type = Root =>
               template.KeyUsage = RootKeyUsage /\ Range(template.ExtKeyUsage) = RootEKU
        /\ config.Type = Intermediate => template.KeyUsage = RootKeyUsage

\* C23 (amended): a root template has key usage {certSign, crlSign,
\* digitalSignature} and the five extended key usages whatever the class; an
\* intermediate template has isCA = true and key usage {certSign,
\* digitalSignature}, without crlSign.
C23_CAKeyUsage ==
    CATemplateBuilt =>
        /\ template.IsCA
        /\ config.Type = Root =>
               template.KeyUsage = RootKeyUsage /\ Range(template.ExtKeyUsage) = RootEKU
        /\ config.Type = Intermediate =>
               template.KeyUsage = {"CertSign", "DigitalSignature"}

\* an intermediate CA template has been built: a CA without crlSign
C23_Witness ==
    /\ CATemplateBuilt /\ config.Type = Intermediate
    /\ template.IsCA /\ "CRLSign" \notin template.KeyUsage

\* the error of the first presence check the request fails
MissingFieldError ==
    IF input.CommonName = "" THEN "commonName is required"
    ELSE IF input.Organization = "" THEN "organization is required"
    ELSE "country is required"

\* the request violates a bound as handed in: a key size below the minimum or
\* a validity above the maximum of its class, or a root rule
ViolatesBound ==
    \/ KeySizeTooSmall
    \/ input.ValidityDays > ClassMax
    \/ CARequest /\ input.Type = Root /\ RootViolations(input) # {}

\* C24: CAConfig.Validate and CertConfig.Validate fail when commonName,
\* organization or country is empty, and they do so before the class is
\* resolved and before the key size, validity and root checks: the error is
\* the missing-field error also when the request violates a bound, and the
\* class, key size and validity of the request are untouched.
C24_PresenceFirst ==
    Validated /\ ~HasRequiredFields =>
        /\ ValidateFailed
        /\ err.msg = MissingFieldError
        /\ req = NoReq
        /\ config.Class = input.Class
        /\ config.KeySize = input.KeySize
        /\ config.ValidityDays = input.ValidityDays

\* a request without organization and with a key size below the class minimum
\* was rejected for the missing organization
C24_Witness ==
    /\ ValidateFailed /\ ViolatesBound /\ KeySizeTooSmall
    /\ input.CommonName # "" /\ input.Organization = ""
    /\ err.msg = "organization is required"

\* the call is TrustCertificate
TrustRequest == op = "TrustCertificate"

\* the path of the copy TrustCertificate writes
trustedCertPath == Join(config.OutputDir, "trusted.crt")

\* the copy of the certificate is in place
TrustedCopyWritten ==
    /\ trustedCertPath \in DOMAIN files
    /\ files[trustedCertPath] = [mode |-> certFileMode, data |-> files0[config.CertPath].data]

\* InstallAndTrustCA returned an error
InstallFailed == TrustRequest /\ err.wrap = "failed to install and trust certificate: %w"

\* C25: TrustCertificate calls the platform installer only after the trusted
\* copy has been written successfully (no command runs before that); when
\* the installer fails TrustCertificate returns an error and the copy stays.
C25_InstallAfterCopy ==
    TrustRequest =>
        /\ First("InstallAndTrustCA") > 0 =>
               /\ 0 < First("WriteFile") /\ First("WriteFile") < First("InstallAndTrustCA")
               /\ TrustedCopyWritten
        /\ cmds # <<>> => First("InstallAndTrustCA") > 0
        /\ InstallFailed => pc = "return" /\ err # nil /\ TrustedCopyWritten
        /\ pc = "return" /\ Len(cmds) > 0 /\ cmds[Len(cmds)].outcome # "ok" => InstallFailed

\* the installer failed after the copy was written, and the copy is still there
C25_Witness ==
    /\ InstallFailed /\ pc = "return" /\ cmds # <<>>
    /\ TrustedCopyWritten /\ trustedCertPath \notin DOMAIN files0

\* C28: SignCertificate reports every failure as a returned error and never
\* aborts abnormally, whatever the certificate and key files hold (missing,
\* not a certificate, not a key, a key that is not an RSA key).
C28_NoAbnormalAbort ==
    SignRequest => pc # "panic"

\* ensureWritableDirectory has returned and nothing has been signed yet
DirectoryChecked ==
    op = "GenerateCA" /\ First("ensureWritableDirectory") > 0 /\ SignStep = 0

\* the probe file of ensureWritableDirectory
testFile == Join(config.OutputDir, ".test")

\* C29: after ensureWritableDirectory has returned, with or without an
\* error, every file that was there before the call is still there with the
\* same content, and there is no probe file.
C29_DirectoryUnchanged ==
    DirectoryChecked =>
        /\ \A path \in DOMAIN files0 :
               path \in DOMAIN files /\ files[path].data = files0[path].data
        /\ testFile \notin DOMAIN files

\* the request object as it was before Validate
RequestBefore == IF op = "GenerateCA" THEN loadConfig(input) ELSE input

\* C27 as stated: when CAConfig.Validate or CertConfig.Validate returns an
\* error, every field of the request has the value it had before the call.
C27_Original ==
    ValidateFailed => config = RequestBefore

\* C27 (amended): a request rejected by a presence check is unchanged; a
\* request rejected later keeps what Validate had defaulted by then: its
\* class is the resolved class, a keySize or validityDays that differs was
\* not positive and is now the class default, and only a leaf request
\* rejected for its CA paths has its dnsNames and outputDir defaulted.
\* The other fields are never changed.
C27_RejectedRequest ==
    ValidateFailed =>
        /\ ~HasRequiredFields => config = RequestBefore
        /\ Subject(config) = Subject(input)
        /\ CARequest => config.Type = input.Type
        /\ LeafRequest => config.CACert = input.CACert /\ config.CAKey = input.CAKey
        /\ HasRequiredFields => config.Class = ResolvedClass
        /\ config.KeySize # input.KeySize =>
               input.KeySize <= 0 /\ config.KeySize = ClassMin
        /\ config.ValidityDays # input.ValidityDays =>
               input.ValidityDays <= 0 /\ config.ValidityDays = ClassMax
        /\ CARequest => config.OutputDir = input.OutputDir
        /\ LeafRequest /\ NamedField(err.msg) \notin {"caCert", "caKey"} =>
               config.OutputDir = input.OutputDir /\ config.DNSNames = input.DNSNames
        /\ LeafRequest /\ NamedField(err.msg) \in {"caCert", "caKey"} =>
               /\ config.OutputDir = DefaultOutputDir(input).OutputDir
               /\ config.DNSNames = DefaultDNSNames(input).DNSNames

\* a root request without class, key size and validity was rejected for its
\* class, and is left with class 1 and the defaults of class 1
C27_Witness ==
    /\ RootRequest /\ ValidateFailed
    /\ input.Class = 0 /\ input.KeySize = 0 /\ input.ValidityDays = 0
    /\ err.msg = "root certificates must be Class 2 or higher"
    /\ config.Class = Class1 /\ config.KeySize = 2048 /\ config.ValidityDays = 1825

\* C30: every root CA request whose validityDays is unset is rejected by
\* CAConfig.Validate, whatever its class.
C30_RootUnsetValidityRejected ==
    RootRequest /\ Validated /\ input.ValidityDays = 0 => ValidateFailed

\* both concurrent calls have returned success
BothReturned ==
    /\ peer # NoPeer
    /\ pc = "return" /\ err = nil
    /\ peer.pc = "return" /\ peer.err = nil

\* the certificate file and the key file an issuance leaves in its directory
issuedCertPath == Join(config.OutputDir, IF op = "GenerateCA" THEN "ca.crt" ELSE "cert.crt")
issuedKeyPath == Join(config.OutputDir, IF op = "GenerateCA" THEN "ca.key" ELSE "cert.key")

\* C26: when two concurrent calls of GenerateCA, or of GenerateCertificate,
\* into the same output directory have both returned success, the
\* certificate file and the key file in that directory belong together: the
\* public key of the certificate is that of the key file.
C26_SameIssuance ==
    BothReturned =>
        files[issuedCertPath].data.cert.PublicKey = files[issuedKeyPath].data.key

====
